---------------------------- MODULE Spec2Model ----------------------------
(***************************************************************************)
(* MyMind: hierarchical to-do list.  The task forest kept by App            *)
(* (src/unnamed/part_000), the drag-and-drop gating of the task cards       *)
(* (src/src/components/TaskCard.tsx, InfiniteCanvas.tsx, TrashZone.tsx),    *)
(* the debounced auto-save and the /tasks endpoints of the server           *)
(* (src/unnamed/part_007).                                                  *)
(***************************************************************************)
EXTENDS Integers, Sequences, FiniteSets, TLC

(***************************************************************************)
(* Bounds of the model.                                                    *)
(***************************************************************************)
\* size of the pool generateId draws from
NumIds == 3
\* largest number of tasks in the forest of the handler-level specification
MaxTasks == 3
\* largest number of tasks in the forest of the card-level specification
MaxCardTasks == 4
\* largest number of tasks in the forest of the persistence specification
MaxSyncTasks == 2
\* largest number of save requests in flight at once
MaxInFlight == 2
\* largest number of top-level tasks in the card-level specification
MaxCardRoots == 2
\* the changes to the forest since the last write are counted up to this number
MaxRun == 2
\* largest number of tasks in the forest of the forms specification
MaxFormTasks == 3
\* longest search query typed into the header
MaxQueryLen == 3
\* most tasks a forest holds while two users share the browser
MaxUserTasks == 2
\* most tasks in a forest of the update specification
MaxUpdateTasks == 3
\* most tasks in a forest of the specification of all handlers
MaxAnyTasks == 2
\* most tasks in a forest of the specification with two colors
MaxColorTasks == 3
\* most tasks in a forest of the header specification
MaxHeaderTasks == 2

(***************************************************************************)
(* Values.                                                                 *)
(***************************************************************************)
\* JavaScript null and undefined, and the empty string
null == "null"
undefined == "undefined"

IdName == <<"a", "b", "c", "d", "e", "f", "g", "h">>
\* the values Math.random().toString(36).substring(2, 9) is drawn from
IdPool == {IdName[i] : i \in 1..NumIds}
Users == {"u1", "u2"}
\* the bearer token the authentication provider issues for a user
TokenOf(u) == u
\* supabase.auth.getUser(accessToken): the user of a token, null when it fails
UserOfToken(token) == IF token \in Users THEN token ELSE null

\* if (v) of JavaScript on a string | null | undefined
Truthy(v) == v \notin {null, undefined, ""}

\* window.innerWidth / 2 - 160 with a window 320 wide
CreateX == 0
\* an object reference that may be null: <<>> for null, <<v>> for the object v
none == <<>>
Some(v) == <<v>>
\* the one canvas position a drop is released at
DropPos == Some([x |-> 50, y |-> 60])

(***************************************************************************)
(* Strings: a string is the sequence of its characters.                    *)
(***************************************************************************)
Chars == {"a", "b", "A", " "}

Str(n) == UNION {[1..k -> Chars] : k \in 0..n}

\* String.prototype.toLowerCase on the characters of the model
toLowerCase(str) == [i \in 1..Len(str) |-> IF str[i] = "A" THEN "a" ELSE str[i]]

\* String.prototype.trim: leading and trailing white space removed
RECURSIVE trimStart(_)
trimStart(str) ==
    IF str # <<>> /\ Head(str) = " " THEN trimStart(Tail(str)) ELSE str

RECURSIVE trimEnd(_)
trimEnd(str) ==
    IF str # <<>> /\ str[Len(str)] = " " THEN trimEnd(SubSeq(str, 1, Len(str) - 1)) ELSE str

\* a trim that removes nothing
trim_Nothing(str) == str

trim(str) == trimEnd(trimStart(str))

startsWith(str, q) == Len(q) <= Len(str) /\ SubSeq(str, 1, Len(q)) = q

includes(str, q) ==
    \E i \in 0..(Len(str) - Len(q)) : SubSeq(str, i + 1, i + Len(q)) = q

\* str.split(" "): the pieces between the spaces, empty pieces included
RECURSIVE split(_)
split(str) ==
    IF \A i \in 1..Len(str) : str[i] # " " THEN <<str>>
    ELSE LET i == CHOOSE k \in 1..Len(str) :
                      str[k] = " " /\ \A j \in 1..(k - 1) : str[j] # " "
         IN <<SubSeq(str, 1, i - 1)>> \o split(SubSeq(str, i + 1, Len(str)))

VARIABLES
    tasks,            \* useState<Task[]>: the forest of top-level tasks
    isAuthenticated,  \* useState(false)
    accessToken,      \* useState("")
    userId,           \* useState("")
    isLoading,        \* useState(true)
    isAdding,         \* useState(false): the add-task input of the header
    isSearching,      \* useState(false): the search input of the header
    localStorage,     \* the session entries: null or the saved token
    saveTimeoutRef,   \* useRef: Some(the timer saveTasks set last), none before the first
    timers,           \* the setTimeout callbacks still pending
    getReqs,          \* GET /tasks requests on their way to the server
    getResps,         \* GET /tasks responses on their way to the client
    postReqs,         \* POST /tasks requests on their way to the server
    store,            \* the key-value store: user -> Some(forest), none when unset
    op,               \* history: the last operation, its arguments, the forest before
    hist              \* history: facts about the saves and loads so far

vars == <<tasks, isAuthenticated, accessToken, userId, isLoading, isAdding,
          isSearching, localStorage, saveTimeoutRef, timers, getReqs, getResps,
          postReqs, store, op, hist>>

appVars == <<isAuthenticated, accessToken, userId, isLoading, localStorage>>
netVars == <<getReqs, getResps, postReqs, store>>
headerVars == <<isAdding, isSearching>>

(***************************************************************************)
(* The Task type and walks over the forest.                                *)
(***************************************************************************)
Task(id, title, color, x, y, parentId) ==
    [id |-> id, title |-> title, color |-> color, x |-> x, y |-> y,
     completed |-> FALSE, collapsed |-> FALSE, subtasks |-> <<>>,
     parentId |-> parentId]

\* the tasks of a forest in depth-first pre-order
RECURSIVE Flatten(_)
Flatten(ts) ==
    IF ts = <<>> THEN <<>>
    ELSE <<Head(ts)>> \o Flatten(Head(ts).subtasks) \o Flatten(Tail(ts))

CountTasks(ts) == Len(Flatten(ts))

AllIds(ts) == {Flatten(ts)[i].id : i \in 1..Len(Flatten(ts))}

\* the paths (index sequences) of all tasks of a forest
RECURSIVE Paths(_)
Paths(ts) ==
    UNION {{<<i>>} \cup {<<i>> \o p : p \in Paths(ts[i].subtasks)} : i \in 1..Len(ts)}

RECURSIVE TaskAt(_, _)
TaskAt(ts, p) ==
    IF Len(p) = 1 THEN ts[p[1]] ELSE TaskAt(ts[p[1]].subtasks, Tail(p))

\* root = depth 0
Depth(p) == Len(p) - 1

ParentPath(p) == SubSeq(p, 1, Len(p) - 1)

MaxDepth(ts) ==
    IF Paths(ts) = {} THEN 0
    ELSE CHOOSE d \in {Depth(p) : p \in Paths(ts)} :
             \A q \in Paths(ts) : Depth(q) <= d

UniqueIds(ts) == Cardinality(AllIds(ts)) = CountTasks(ts)

\* the task with a given id (forests with unique ids)
PathOf(ts, id) == CHOOSE p \in Paths(ts) : TaskAt(ts, p).id = id


Titles == {<<"t">>}
Colors == {"blue"}

(***************************************************************************)
(* The tree utilities of App.                                              *)
(***************************************************************************)
\* the updateFn closures the handlers pass to findAndUpdateTask
ToggleCompleteFn == [kind |-> "toggleComplete"]
ToggleCollapseFn == [kind |-> "toggleCollapse"]
EditTitleFn(newTitle) == [kind |-> "editTitle", title |-> newTitle]
AppendSubtaskFn(sub) == [kind |-> "appendSubtask", sub |-> sub]

\* a toggle that also sets the flag of the subtasks of the task
ApplyUpdate_Cascade(fn, task) ==
    CASE fn.kind = "toggleComplete" ->
            [task EXCEPT !.completed = ~task.completed,
                         !.subtasks = [i \in 1..Len(@) |->
                                          [@[i] EXCEPT !.completed = ~task.completed]]]
      [] fn.kind = "toggleCollapse" ->
            [task EXCEPT !.collapsed = ~task.collapsed,
                         !.subtasks = [i \in 1..Len(@) |->
                                          [@[i] EXCEPT !.collapsed = ~task.collapsed]]]
      [] fn.kind = "editTitle"      -> [task EXCEPT !.title = fn.title]
      [] fn.kind = "appendSubtask"  -> [task EXCEPT !.subtasks = Append(task.subtasks, fn.sub)]

ApplyUpdate(fn, task) ==
    CASE fn.kind = "toggleComplete" -> [task EXCEPT !.completed = ~task.completed]
      [] fn.kind = "toggleCollapse" -> [task EXCEPT !.collapsed = ~task.collapsed]
      [] fn.kind = "editTitle"      -> [task EXCEPT !.title = fn.title]
      [] fn.kind = "appendSubtask"  -> [task EXCEPT !.subtasks = Append(task.subtasks, fn.sub)]

\* an update that looks at the top level only
findAndUpdateTask_TopLevelOnly(ts, id, fn) ==
    [i \in 1..Len(ts) |-> IF ts[i].id = id THEN ApplyUpdate(fn, ts[i]) ELSE ts[i]]

\* tasks.map: every task with the id is replaced, a matched task is not descended into
RECURSIVE findAndUpdateTask(_, _, _)
findAndUpdateTask(ts, id, fn) ==
    [i \in 1..Len(ts) |->
        IF ts[i].id = id THEN ApplyUpdate(fn, ts[i])
        ELSE IF Len(ts[i].subtasks) > 0
             THEN [ts[i] EXCEPT !.subtasks = findAndUpdateTask(ts[i].subtasks, id, fn)]
             ELSE ts[i]]

\* a search of the subtrees that does not hand up what it removed
LastRemoved_None(rs) == 0

\* the last index of a sequence of records whose field removed is not null, 0 if none
LastRemoved(rs) ==
    LET hit == {i \in 1..Len(rs) : rs[i].removed # none}
    IN IF hit = {} THEN 0 ELSE CHOOSE i \in hit : \A j \in hit : j <= i

\* a removal that looks at the top level only
removeTaskFromTree_TopLevelOnly(ts, taskId) ==
    LET match == {i \in 1..Len(ts) : ts[i].id = taskId}
    IN [tasks   |-> SelectSeq(ts, LAMBDA t : t.id # taskId),
        removed |-> IF match = {} THEN none ELSE Some(ts[CHOOSE i \in match : TRUE])]

\* filter at this level first; only when nothing matched here (filtered is then
\* the whole of ts), map over the subtrees; results holds the recursive calls
RECURSIVE removeTaskFromTree(_, _)
removeTaskFromTree(ts, taskId) ==
    LET match    == {i \in 1..Len(ts) : ts[i].id = taskId}
        filtered == SelectSeq(ts, LAMBDA t : t.id # taskId)
    IN IF match # {}
       THEN [tasks   |-> filtered,
             removed |-> Some(ts[CHOOSE i \in match : \A j \in match : j <= i])]
       ELSE CHOOSE out \in
                {[tasks   |-> [i \in 1..Len(ts) |->
                                  IF results[i].removed # none
                                  THEN [ts[i] EXCEPT !.subtasks = results[i].tasks]
                                  ELSE ts[i]],
                  removed |-> IF LastRemoved(results) = 0 THEN none
                              ELSE results[LastRemoved(results)].removed] :
                    results \in {[i \in 1..Len(ts) |->
                                    IF Len(ts[i].subtasks) > 0
                                    THEN removeTaskFromTree(ts[i].subtasks, taskId)
                                    ELSE [tasks |-> <<>>, removed |-> none]]}} : TRUE

\* a move under a parent that leaves the position of the task as it was
MoveAfterRemoval_KeepsPosition(prevTasks, r, newParentId, newPosition) ==
    IF r.removed = none THEN prevTasks
    ELSE IF Truthy(newParentId)
    THEN LET movedTask == [r.removed[1] EXCEPT !.parentId = newParentId]
         IN findAndUpdateTask(r.tasks, newParentId, AppendSubtaskFn(movedTask))
    ELSE IF newPosition # none
    THEN LET movedTask == [r.removed[1] EXCEPT !.x = newPosition[1].x,
                                               !.y = newPosition[1].y,
                                               !.parentId = undefined]
         IN Append(r.tasks, movedTask)
    ELSE prevTasks

\* a move to the canvas that leaves the parentId of the task as it was
MoveAfterRemoval_KeepsParentId(prevTasks, r, newParentId, newPosition) ==
    IF r.removed = none THEN prevTasks
    ELSE IF Truthy(newParentId)
    THEN LET movedTask == [r.removed[1] EXCEPT !.parentId = newParentId, !.x = 0, !.y = 0]
         IN findAndUpdateTask(r.tasks, newParentId, AppendSubtaskFn(movedTask))
    ELSE IF newPosition # none
    THEN LET movedTask == [r.removed[1] EXCEPT !.x = newPosition[1].x,
                                               !.y = newPosition[1].y]
         IN Append(r.tasks, movedTask)
    ELSE prevTasks

\* the updater handleMoveTask hands to setTasks, given the result r of
\* removeTaskFromTree(prevTasks, taskId)
MoveAfterRemoval(prevTasks, r, newParentId, newPosition) ==
    IF r.removed = none THEN prevTasks
    ELSE IF Truthy(newParentId)
    THEN LET movedTask == [r.removed[1] EXCEPT !.parentId = newParentId, !.x = 0, !.y = 0]
         IN findAndUpdateTask(r.tasks, newParentId, AppendSubtaskFn(movedTask))
    ELSE IF newPosition # none
    THEN LET movedTask == [r.removed[1] EXCEPT !.x = newPosition[1].x,
                                               !.y = newPosition[1].y,
                                               !.parentId = undefined]
         IN Append(r.tasks, movedTask)
    ELSE prevTasks

\* a move that puts the task at its new place and leaves it at the old one too
handleMoveTask_CopyNotMove(prevTasks, taskId, newParentId, newPosition) ==
    CHOOSE next \in {MoveAfterRemoval(prevTasks, [r EXCEPT !.tasks = prevTasks],
                                      newParentId, newPosition) :
                        r \in {removeTaskFromTree(prevTasks, taskId)}} : TRUE

handleMoveTask(prevTasks, taskId, newParentId, newPosition) ==
    CHOOSE next \in {MoveAfterRemoval(prevTasks, r, newParentId, newPosition) :
                        r \in {removeTaskFromTree(prevTasks, taskId)}} : TRUE

\* whether that updater returns prevTasks itself, so that React sees no state change
MoveKeepsReference(prevTasks, taskId, newParentId, newPosition) ==
    \/ removeTaskFromTree(prevTasks, taskId).removed = none
    \/ (~Truthy(newParentId) /\ newPosition = none)

handleDeleteTask(prevTasks, taskId) == removeTaskFromTree(prevTasks, taskId).tasks

\* an add-subtask that makes the new task a root when the parent is not found
handleAddSubtask_OrphanToRoot(prevTasks, parentId, newId, title, color) ==
    IF parentId \in AllIds(prevTasks)
    THEN findAndUpdateTask(prevTasks, parentId,
                           AppendSubtaskFn(Task(newId, title, color, 0, 0, parentId)))
    ELSE Append(prevTasks, Task(newId, title, color, 0, 0, parentId))

handleAddSubtask(prevTasks, parentId, newId, title, color) ==
    findAndUpdateTask(prevTasks, parentId,
                      AppendSubtaskFn(Task(newId, title, color, 0, 0, parentId)))

handleCreateTask(prevTasks, newId, title, color) ==
    Append(prevTasks, Task(newId, title, color, CreateX, Len(prevTasks) * 120 + 50, undefined))

(***************************************************************************)
(* The debounced save.                                                     *)
(***************************************************************************)
\* a saveTasks that leaves the earlier timer pending
clearTimeout_KeepsTimer(pending, ref) == pending

\* if (saveTimeoutRef.current) clearTimeout(saveTimeoutRef.current)
clearTimeout(pending, ref) == pending \ {ref[i] : i \in 1..Len(ref)}

\* saveTasks(tasksToSave) in a render whose accessToken is token
saveTasks(token, tasksToSave) ==
    IF ~Truthy(token)
    THEN UNCHANGED <<saveTimeoutRef, timers>>
    ELSE LET t == [token |-> token, tasks |-> tasksToSave]
         IN /\ timers' = clearTimeout(timers, saveTimeoutRef) \cup {t}
            /\ saveTimeoutRef' = Some(t)

\* the auto-save effect, run after a render in which tasks or isAuthenticated changed
AutoSaveEffect(depsChanged, auth, token, ts) ==
    IF depsChanged /\ auth /\ Len(ts) >= 0
    THEN saveTasks(token, ts)
    ELSE UNCHANGED <<saveTimeoutRef, timers>>

(***************************************************************************)
(* The handlers of App, each with the render and the effect that follow.   *)
(***************************************************************************)
\* the main UI is rendered (neither the login screen nor the loading indicator)
Ready == isAuthenticated /\ ~isLoading

Op(name, id, to, pos) ==
    [name |-> name, id |-> id, to |-> to, pos |-> pos, prev |-> tasks, steps |-> <<>>]

\* setTasks(next) followed by the effect; sameRef: next is the previous array
\* itself; h: the history so far
SetTasksH(next, sameRef, h) ==
    /\ tasks' = next
    /\ AutoSaveEffect(~sameRef, isAuthenticated, accessToken, next)
    /\ hist' = IF sameRef THEN h
               ELSE [h EXCEPT !.edited = TRUE,
                              !.unsaved = IF @ < MaxRun THEN @ + 1 ELSE @]

SetTasks(next, sameRef) == SetTasksH(next, sameRef, hist)

HandleCreateTask(newId, title, color) ==
    /\ Ready
    /\ SetTasks(handleCreateTask(tasks, newId, title, color), FALSE)
    /\ isAdding' = FALSE
    /\ op' = Op("createTask", newId, null, none)
    /\ UNCHANGED <<appVars, netVars, isSearching>>

HandleAddSubtask(parentId, newId, title, color) ==
    /\ Ready
    /\ SetTasks(handleAddSubtask(tasks, parentId, newId, title, color), FALSE)
    /\ op' = Op("addSubtask", newId, parentId, none)
    /\ UNCHANGED <<appVars, netVars, headerVars>>

HandleToggleComplete(id) ==
    /\ Ready
    /\ SetTasks(findAndUpdateTask(tasks, id, ToggleCompleteFn), FALSE)
    /\ op' = Op("toggleComplete", id, null, none)
    /\ UNCHANGED <<appVars, netVars, headerVars>>

HandleToggleCollapse(id) ==
    /\ Ready
    /\ SetTasks(findAndUpdateTask(tasks, id, ToggleCollapseFn), FALSE)
    /\ op' = Op("toggleCollapse", id, null, none)
    /\ UNCHANGED <<appVars, netVars, headerVars>>

\* h: the history so far
HandleMoveTaskH(taskId, newParentId, newPosition, h) ==
    /\ Ready
    /\ SetTasksH(handleMoveTask(tasks, taskId, newParentId, newPosition),
                 MoveKeepsReference(tasks, taskId, newParentId, newPosition), h)
    /\ op' = Op("moveTask", taskId, newParentId, newPosition)
    /\ UNCHANGED <<appVars, netVars, headerVars>>

HandleMoveTask(taskId, newParentId, newPosition) ==
    HandleMoveTaskH(taskId, newParentId, newPosition, hist)

HandleEditTask(id, newTitle) ==
    /\ Ready
    /\ SetTasks(findAndUpdateTask(tasks, id, EditTitleFn(newTitle)), FALSE)
    /\ op' = Op("editTask", id, null, none)
    /\ UNCHANGED <<appVars, netVars, headerVars>>

\* a form submitted with a text its handler does not accept: no callback of App
\* is called
FormRejected(form, text) ==
    /\ Ready
    /\ op' = [name |-> "rejected", id |-> null, to |-> null, pos |-> none,
              prev |-> tasks, steps |-> <<>>, form |-> form, text |-> text]
    /\ UNCHANGED <<tasks, appVars, netVars, headerVars, saveTimeoutRef, timers, hist>>

HandleDeleteTask(taskId) ==
    /\ Ready
    /\ SetTasks(handleDeleteTask(tasks, taskId), FALSE)
    /\ op' = Op("deleteTask", taskId, null, none)
    /\ UNCHANGED <<appVars, netVars, headerVars>>

(***************************************************************************)
(* Handler-level specification: the handlers of App called with any        *)
(* arguments, for a user whose (empty) forest has been loaded and saved.   *)
(***************************************************************************)
\* edited: the user has changed the forest; unsaved: the changes since the last
\* timer fired (counted up to MaxRun); coalesced: the changes the last write stood
\* for; saveFailed: a save request has failed; loggedOut: the user has logged out;
\* emptySaveDuringLoad: a write of [] was issued while the load of that login was
\* in flight and the user had changed nothing; overwrittenByEmpty: the store
\* replaced a non-empty forest by [] and the user had changed nothing; trip: the
\* move there and back under way (SpecRound), null otherwise
NoHist == [edited |-> FALSE, unsaved |-> 0, coalesced |-> 0, saveFailed |-> FALSE,
           loggedOut |-> FALSE, emptySaveDuringLoad |-> FALSE,
           overwrittenByEmpty |-> FALSE, trip |-> none]

InitLoaded ==
    /\ tasks = <<>>
    /\ isAuthenticated = TRUE
    /\ accessToken = TokenOf("u1")
    /\ userId = "u1"
    /\ isLoading = FALSE
    /\ isAdding = FALSE
    /\ isSearching = FALSE
    /\ localStorage = TokenOf("u1")
    /\ saveTimeoutRef = Some([token |-> TokenOf("u1"), tasks |-> <<>>])
    /\ timers = {}
    /\ getReqs = {}
    /\ getResps = {}
    /\ postReqs = {}
    /\ store = [u \in Users |-> IF u = "u1" THEN Some(<<>>) ELSE none]
    /\ op = [name |-> "init", id |-> null, to |-> null, pos |-> none,
             prev |-> <<>>, steps |-> <<>>]
    /\ hist = NoHist

NextTree ==
    \/ \E id \in IdPool, title \in Titles, color \in Colors :
          CountTasks(tasks) < MaxTasks /\ HandleCreateTask(id, title, color)
    \/ \E parentId \in IdPool, id \in IdPool, title \in Titles, color \in Colors :
          CountTasks(tasks) < MaxTasks /\ HandleAddSubtask(parentId, id, title, color)
    \/ \E taskId \in IdPool, newParentId \in IdPool : HandleMoveTask(taskId, newParentId, none)
    \/ \E taskId \in IdPool : HandleMoveTask(taskId, null, DropPos)
    \/ \E taskId \in IdPool : HandleDeleteTask(taskId)

SpecTree == InitLoaded /\ [][NextTree]_vars

(***************************************************************************)
(* The task cards, the canvas and the trash zone: what the user can reach. *)
(***************************************************************************)
\* TaskCard: Maximum nesting depth
maxLevel == 3

canAddSubtask(level) == level < maxLevel

\* a card that accepts itself
canDrop_NoSelfCheck(itemId, taskId, level) == canAddSubtask(level)

\* canDrop of a card, and the same test in its drop callback
canDrop(itemId, taskId, level) == itemId # taskId /\ canAddSubtask(level)

\* a card is rendered when no task above it is collapsed; the root cards are at level 0
RenderedPaths(ts) ==
    {p \in Paths(ts) :
        \A k \in 1..(Len(p) - 1) : ~TaskAt(ts, SubSeq(p, 1, k)).collapsed}

\* the item useDrag hands to the drop targets
DragItem(ts, p) == [id |-> TaskAt(ts, p).id, isTopLevel |-> Depth(p) = 0]

\* the drop targets under the pointer, innermost first: the card at q, the cards
\* around it, the canvas
CardTarget(ts, q) == [kind |-> "card", id |-> TaskAt(ts, q).id, level |-> Depth(q)]
CanvasTarget == [kind |-> "canvas", id |-> null, level |-> 0]
TrashTarget == [kind |-> "trash", id |-> null, level |-> 0]

ChainFromCard(ts, q) ==
    [k \in 1..Len(q) |-> CardTarget(ts, SubSeq(q, 1, Len(q) + 1 - k))] \o <<CanvasTarget>>

\* the drop callback of one target, as an updater of the forest
DropOn(h, item, ts) ==
    CASE h.kind = "card" ->
            IF canDrop(item.id, h.id, h.level)
            THEN handleMoveTask(ts, item.id, h.id, none)
            ELSE ts
      [] h.kind = "canvas" ->
            IF item.isTopLevel
            THEN handleMoveTask(ts, item.id, null, DropPos)
            ELSE ts
      [] h.kind = "trash" -> handleDeleteTask(ts, item.id)

\* whether the callback calls onMoveTask / onDeleteTask at all
DropCalls(h, item) ==
    CASE h.kind = "card"   -> canDrop(item.id, h.id, h.level)
      [] h.kind = "canvas" -> item.isTopLevel
      [] h.kind = "trash"  -> TRUE

\* whether React is handed the previous array back by that callback
DropKeepsReference(h, item, ts) ==
    CASE h.kind = "card" ->
            ~canDrop(item.id, h.id, h.level)
            \/ MoveKeepsReference(ts, item.id, h.id, none)
      [] h.kind = "canvas" ->
            ~item.isTopLevel \/ MoveKeepsReference(ts, item.id, null, DropPos)
      [] h.kind = "trash" -> FALSE

\* react-dnd calls drop on every target of the chain in turn; the updaters run in
\* that order on the forest
RECURSIVE RunDropTargets(_, _, _)
RunDropTargets(chain, item, ts) ==
    IF chain = <<>> THEN <<>>
    ELSE LET h == Head(chain)
         IN CHOOSE steps \in
                {<<[kind |-> h.kind, target |-> h.id, level |-> h.level,
                    called |-> DropCalls(h, item), after |-> after,
                    sameRef |-> DropKeepsReference(h, item, ts)]>>
                 \o RunDropTargets(Tail(chain), item, after) :
                     after \in {DropOn(h, item, ts)}} : TRUE

\* one drag gesture released over the given chain of targets
DropGesture(name, p, chain) ==
    /\ Ready
    /\ p \in RenderedPaths(tasks)
    /\ \E steps \in {RunDropTargets(chain, DragItem(tasks, p), tasks)} :
          /\ SetTasks(steps[Len(steps)].after,
                      \A i \in 1..Len(steps) : steps[i].sameRef)
          /\ op' = [name |-> name, id |-> TaskAt(tasks, p).id, to |-> chain[1].id,
                    pos |-> none, prev |-> tasks, steps |-> steps]
    /\ UNCHANGED <<appVars, netVars, headerVars>>

DropOnCard(p, q) ==
    /\ q \in RenderedPaths(tasks)
    /\ DropGesture("dropOnCard", p, ChainFromCard(tasks, q))

DropOnCanvas(p) == DropGesture("dropOnCanvas", p, <<CanvasTarget>>)

DropOnTrash(p) == DropGesture("dropOnTrash", p, <<TrashTarget>>)

\* a card that gives every new subtask the default color of the header form
CardAddSubtask_DefaultColor(p, newId, title) ==
    /\ p \in RenderedPaths(tasks)
    /\ canAddSubtask(Depth(p))
    /\ IF trim(title) # <<>>
       THEN HandleAddSubtask(TaskAt(tasks, p).id, newId, title, "blue")
       ELSE FormRejected("addSubtask", title)

\* the add-subtask form of the card at p: the button is there while canAddSubtask,
\* the subtask gets the card's id as parent and the card's color
CardAddSubtask(p, newId, title) ==
    /\ p \in RenderedPaths(tasks)
    /\ canAddSubtask(Depth(p))
    /\ IF trim(title) # <<>>
       THEN HandleAddSubtask(TaskAt(tasks, p).id, newId, title, TaskAt(tasks, p).color)
       ELSE FormRejected("addSubtask", title)

(***************************************************************************)
(* Card-level specification: the forest is changed only through the header *)
(* form, the cards, the canvas and the trash zone.  generateId draws an id  *)
(* that is not in the forest (which fresh id makes no difference to the     *)
(* cards, so the first one is taken); duplicate draws are left to SpecTree. *)
(***************************************************************************)

FreshId(ts) ==
    IdName[CHOOSE i \in 1..MaxCardTasks :
              /\ IdName[i] \notin AllIds(ts)
              /\ \A j \in 1..(i - 1) : IdName[j] \in AllIds(ts)]

NextCard ==
    \/ \E title \in Titles, color \in Colors :
          /\ CountTasks(tasks) < MaxCardTasks
          /\ Len(tasks) < MaxCardRoots
          /\ HandleCreateTask(FreshId(tasks), title, color)
    \/ \E p \in RenderedPaths(tasks), title \in Titles :
          /\ CountTasks(tasks) < MaxCardTasks
          /\ CardAddSubtask(p, FreshId(tasks), title)
    \/ \E p \in RenderedPaths(tasks), q \in RenderedPaths(tasks) : DropOnCard(p, q)
    \/ \E p \in RenderedPaths(tasks) : DropOnCanvas(p)
    \/ \E p \in RenderedPaths(tasks) : DropOnTrash(p)

SpecCard == InitLoaded /\ [][NextCard]_vars

(***************************************************************************)
(* Login, logout, the load and the save requests, the server.              *)
(***************************************************************************)
SyncOp(name) ==
    [name |-> name, id |-> null, to |-> null, pos |-> none, prev |-> <<>>, steps |-> <<>>]

\* loadTasks(token) up to its await: setIsLoading(true) and the GET request
loadTasks(token) ==
    /\ isLoading' = TRUE
    /\ getReqs' = getReqs \cup {token}

\* the Login screen is rendered while !isAuthenticated; onLogin(token, uid, name)
\* is followed by the render in which the auto-save effect sees isAuthenticated
HandleLogin(u) ==
    /\ ~isAuthenticated
    /\ accessToken' = TokenOf(u)
    /\ userId' = u
    /\ isAuthenticated' = TRUE
    /\ localStorage' = TokenOf(u)
    /\ loadTasks(TokenOf(u))
    /\ tasks' = tasks
    /\ AutoSaveEffect(TRUE, TRUE, TokenOf(u), tasks)
    /\ op' = SyncOp("login")
    /\ UNCHANGED <<getResps, postReqs, store, headerVars, hist>>

\* a logout whose effect still saves, with the token of the render before
HandleLogout_SavesEmpty ==
    /\ Ready
    /\ isAuthenticated' = FALSE
    /\ accessToken' = ""
    /\ userId' = ""
    /\ tasks' = <<>>
    /\ localStorage' = null
    /\ AutoSaveEffect(TRUE, TRUE, accessToken, <<>>)
    /\ op' = SyncOp("logout")
    /\ hist' = [hist EXCEPT !.loggedOut = TRUE, !.unsaved = 0]
    /\ UNCHANGED <<isLoading, netVars, headerVars>>

\* a logout that leaves the forest in memory
HandleLogout_KeepsTasks ==
    /\ Ready
    /\ isAuthenticated' = FALSE
    /\ accessToken' = ""
    /\ userId' = ""
    /\ tasks' = tasks
    /\ localStorage' = null
    /\ AutoSaveEffect(TRUE, FALSE, "", tasks)
    /\ op' = SyncOp("logout")
    /\ hist' = [hist EXCEPT !.loggedOut = TRUE, !.unsaved = 0]
    /\ UNCHANGED <<isLoading, netVars, headerVars>>

\* the logout button of the header; the effect runs with isAuthenticated false
HandleLogout ==
    /\ Ready
    /\ isAuthenticated' = FALSE
    /\ accessToken' = ""
    /\ userId' = ""
    /\ tasks' = <<>>
    /\ localStorage' = null
    /\ AutoSaveEffect(TRUE, FALSE, "", <<>>)
    /\ op' = SyncOp("logout")
    /\ hist' = [hist EXCEPT !.loggedOut = TRUE, !.unsaved = 0]
    /\ UNCHANGED <<isLoading, netVars, headerVars>>

\* GET /tasks on the server: the forest stored for the user of the token, [] when
\* none is stored
ServerGetTasks(token) ==
    /\ token \in getReqs
    /\ getReqs' = getReqs \ {token}
    /\ LET stored == store[UserOfToken(token)]
       IN getResps' = getResps \cup
              {[token |-> token, ok |-> TRUE,
                tasks |-> IF stored = none THEN <<>> ELSE stored[1]]}
    /\ op' = SyncOp("serverGet")
    /\ UNCHANGED <<tasks, appVars, headerVars, saveTimeoutRef, timers, postReqs, store, hist>>

\* the request fails (network error, 500): api.getTasks throws
ServerGetFails(token) ==
    /\ token \in getReqs
    /\ getReqs' = getReqs \ {token}
    /\ getResps' = getResps \cup {[token |-> token, ok |-> FALSE, tasks |-> <<>>]}
    /\ op' = SyncOp("serverGetFails")
    /\ UNCHANGED <<tasks, appVars, headerVars, saveTimeoutRef, timers, postReqs, store, hist>>

\* loadTasks after its await: setTasks(fetchedTasks) or the catch, then finally
LoadTasksResumes(r) ==
    /\ r \in getResps
    /\ getResps' = getResps \ {r}
    /\ isLoading' = FALSE
    /\ IF r.ok
       THEN /\ tasks' = r.tasks
            /\ AutoSaveEffect(TRUE, isAuthenticated, accessToken, r.tasks)
       ELSE UNCHANGED <<tasks, saveTimeoutRef, timers>>
    /\ op' = SyncOp("loadResumes")
    /\ UNCHANGED <<isAuthenticated, accessToken, userId, localStorage, headerVars,
                   getReqs, postReqs, store, hist>>

\* the callback of setTimeout: api.saveTasks(accessToken, tasksToSave) with the
\* token and the forest of the render that set the timer
TimerFires(t) ==
    /\ t \in timers
    /\ Cardinality(postReqs) < MaxInFlight
    /\ timers' = timers \ {t}
    /\ postReqs' = postReqs \cup {t}
    /\ op' = [SyncOp("timerFires") EXCEPT !.id = t.token, !.prev = t.tasks]
    /\ hist' = [hist EXCEPT
                  !.coalesced = hist.unsaved,
                  !.unsaved = 0,
                  !.emptySaveDuringLoad =
                      @ \/ (/\ t.tasks = <<>>
                            /\ ~hist.edited
                            /\ \/ t.token \in getReqs
                               \/ \E r \in getResps : r.token = t.token)]
    /\ UNCHANGED <<tasks, appVars, headerVars, saveTimeoutRef, getReqs, getResps, store>>

\* POST /tasks on the server: kv.set(`user_${userId}_tasks`, tasks)
ServerSaveTasks(r) ==
    /\ r \in postReqs
    /\ postReqs' = postReqs \ {r}
    /\ Truthy(UserOfToken(r.token))
    /\ store' = [store EXCEPT ![UserOfToken(r.token)] = Some(r.tasks)]
    /\ op' = SyncOp("serverSave")
    /\ hist' = [hist EXCEPT
                  !.overwrittenByEmpty =
                      @ \/ (/\ r.tasks = <<>>
                            /\ ~hist.edited
                            /\ store[UserOfToken(r.token)] \notin {none, Some(<<>>)})]
    /\ UNCHANGED <<tasks, appVars, headerVars, saveTimeoutRef, timers, getReqs, getResps>>

\* the request fails (network error, 500): api.saveTasks throws, the error is logged
ServerSaveFails(r) ==
    /\ r \in postReqs
    /\ postReqs' = postReqs \ {r}
    /\ op' = SyncOp("serverSaveFails")
    /\ hist' = [hist EXCEPT !.saveFailed = TRUE]
    /\ UNCHANGED <<tasks, appVars, headerVars, saveTimeoutRef, timers, getReqs, getResps, store>>

(***************************************************************************)
(* Persistence specification: the application has been mounted, with or    *)
(* without a saved session; the first user has a forest in the store.      *)
(***************************************************************************)
\* the users who log in on this browser
SyncUsers == {"u1"}

StoredForest == <<Task("a", <<"t">>, "blue", CreateX, 50, undefined)>>

\* the state after the mount effects (session restore, then the auto-save effect
\* of the render it causes)
InitMounted ==
    /\ localStorage \in {null} \cup {TokenOf(u) : u \in SyncUsers}
    /\ tasks = <<>>
    /\ isAuthenticated = Truthy(localStorage)
    /\ accessToken = (IF Truthy(localStorage) THEN localStorage ELSE "")
    /\ userId = (IF Truthy(localStorage) THEN UserOfToken(localStorage) ELSE "")
    /\ isLoading = Truthy(localStorage)
    /\ isAdding = FALSE
    /\ isSearching = FALSE
    /\ getReqs = (IF Truthy(localStorage) THEN {localStorage} ELSE {})
    /\ timers = (IF Truthy(localStorage)
                 THEN {[token |-> localStorage, tasks |-> <<>>]} ELSE {})
    /\ saveTimeoutRef = (IF Truthy(localStorage)
                         THEN Some([token |-> localStorage, tasks |-> <<>>]) ELSE none)
    /\ getResps = {}
    /\ postReqs = {}
    /\ store = [u \in Users |-> IF u = "u1" THEN Some(StoredForest) ELSE none]
    /\ op = SyncOp("init")
    /\ hist = NoHist

NextSync ==
    \/ \E u \in SyncUsers : HandleLogin(u)
    \/ HandleLogout
    \/ \E token \in getReqs : ServerGetTasks(token)
    \/ \E token \in getReqs : ServerGetFails(token)
    \/ \E r \in getResps : LoadTasksResumes(r)
    \/ \E t \in timers : TimerFires(t)
    \/ \E r \in postReqs : ServerSaveTasks(r)
    \/ \E r \in postReqs : ServerSaveFails(r)
    \/ \E title \in Titles, color \in Colors :
          /\ CountTasks(tasks) < MaxSyncTasks
          /\ HandleCreateTask(FreshId(tasks), title, color)
    \/ \E taskId \in AllIds(tasks) : HandleDeleteTask(taskId)

SpecSync == InitMounted /\ [][NextSync]_vars

(***************************************************************************)
(* Vocabulary of the claims about the forest.                              *)
(***************************************************************************)
IdsOf(ts) == [i \in 1..Len(ts) |-> ts[i].id]

SubtreeIds(ts, id) == AllIds(<<TaskAt(ts, PathOf(ts, id))>>)

Without(seq, S) == SelectSeq(seq, LAMBDA v : v \notin S)

\* a task without its subtasks
Fields(t) == [t EXCEPT !.subtasks = <<>>]

\* every task carries the id of the task whose subtasks hold it, roots carry none
ParentIdsAgree(ts) ==
    \A p \in Paths(ts) :
        TaskAt(ts, p).parentId =
            IF Depth(p) = 0 THEN undefined ELSE TaskAt(ts, ParentPath(p)).id

\* every id is the id of exactly one place of the forest
SingleOwner(ts) ==
    \A id \in AllIds(ts) : Cardinality({p \in Paths(ts) : TaskAt(ts, p).id = id}) = 1

\* the forest a step of a drop gesture started from
StepBefore(i) == IF i = 1 THEN op.prev ELSE op.steps[i - 1].after

\* the task x lies strictly above the task y (forests with unique ids)
IsProperAncestor(ts, x, y) ==
    /\ x \in AllIds(ts)
    /\ y \in AllIds(ts)
    /\ Len(PathOf(ts, x)) < Len(PathOf(ts, y))
    /\ SubSeq(PathOf(ts, y), 1, Len(PathOf(ts, x))) = PathOf(ts, x)

\* C1: with the forest changed only through the cards, the canvas and the trash
\* zone, no task is ever deeper than depth 2 (root = depth 0)
C1_DepthBound == MaxDepth(tasks) <= 2

\* C2: a reparent move of an existing task to a parent id that occurs nowhere in
\* the forest leaves the forest unchanged (the task is not lost)
C2_FailedReparentUnchanged ==
    (/\ op.name = "moveTask"
     /\ Truthy(op.to)
     /\ op.id \in AllIds(op.prev)
     /\ op.to \notin AllIds(op.prev)) => tasks = op.prev

\* C3: a task dropped on the card of one of its own descendants is not moved:
\* the forest after the card's drop callback is the forest before it
C3_CyclicMoveRejected ==
    (/\ op.name = "dropOnCard"
     /\ IsProperAncestor(op.prev, op.id, op.to)) => op.steps[1].after = op.prev

C5_ParentConsistency == ParentIdsAgree(tasks) /\ SingleOwner(tasks)

\* C6: a create-root or add-subtask on a forest without duplicate ids yields a
\* forest without duplicate ids
C6_IdUniqueness ==
    (op.name \in {"createTask", "addSubtask"} /\ UniqueIds(op.prev)) => UniqueIds(tasks)

\* C7: deleteTask(X) on a forest with unique ids removes X and its descendants
\* and nothing else: every other task keeps its fields, its parent and its
\* order among its siblings
C7_DeleteRemovesExactlySubtree ==
    (op.name = "deleteTask" /\ UniqueIds(op.prev)) =>
        LET S == IF op.id \in AllIds(op.prev) THEN SubtreeIds(op.prev, op.id) ELSE {}
        IN /\ AllIds(tasks) = AllIds(op.prev) \ S
           /\ UniqueIds(tasks)
           /\ IdsOf(tasks) = Without(IdsOf(op.prev), S)
           /\ \A y \in AllIds(tasks) :
                 LET a == TaskAt(op.prev, PathOf(op.prev, y))
                     b == TaskAt(tasks, PathOf(tasks, y))
                 IN /\ Fields(a) = Fields(b)
                    /\ IdsOf(b.subtasks) = Without(IdsOf(a.subtasks), S)

\* a nested task with a subtask of its own has been deleted, its parent remains
C7_Witness ==
    /\ op.name = "deleteTask"
    /\ UniqueIds(op.prev)
    /\ op.id \in AllIds(op.prev)
    /\ Depth(PathOf(op.prev, op.id)) = 1
    /\ Cardinality(SubtreeIds(op.prev, op.id)) = 2
    /\ CountTasks(tasks) = 1

(***************************************************************************)
(* The claims about the saves.                                             *)
(***************************************************************************)
Quiescent == timers = {} /\ postReqs = {} /\ getReqs = {} /\ getResps = {}

C9_EventualPersistence ==
    (/\ Ready
     /\ Quiescent
     /\ hist.edited
     /\ ~hist.saveFailed
     /\ ~hist.loggedOut
     /\ ~hist.emptySaveDuringLoad) => store[userId] = Some(tasks)

\* C10: no write of the empty forest is issued while the load of a login is in
\* flight, and the stored forest of a user is never replaced by [] unless the
\* user changed the forest
C10_NoEmptySaveOnLogin == ~hist.emptySaveDuringLoad /\ ~hist.overwrittenByEmpty


(***************************************************************************)
(* The claims about the depth limit at the cards.                          *)
(***************************************************************************)
\* C11: adding a subtask to a task at depth 2 is rejected and leaves the forest
\* unchanged; the add-subtask action is never available on a task at depth 2
C11_AddAtDepth2Rejected ==
    (/\ op.name = "addSubtask"
     /\ UniqueIds(op.prev)
     /\ op.to \in AllIds(op.prev)
     /\ Depth(PathOf(op.prev, op.to)) = 2) => tasks = op.prev

\* C12: a task dropped on the card of a task at depth 2 (another task, not one of
\* its own descendants) is not moved: the card's drop callback leaves the forest
\* unchanged
C12_ReparentAtDepth2Rejected ==
    (/\ op.name = "dropOnCard"
     /\ op.id # op.to
     /\ ~IsProperAncestor(op.prev, op.id, op.to)
     /\ Depth(PathOf(op.prev, op.to)) = 2) => op.steps[1].after = op.prev


(***************************************************************************)
(* Round-trip specification: a forest is built with fresh ids, then one    *)
(* task is moved under another task and moved back to where it was.        *)
(***************************************************************************)
\* the id of the task that holds the task with this id, null for a root
ParentIdOf(ts, id) ==
    IF Depth(PathOf(ts, id)) = 0 THEN null
    ELSE TaskAt(ts, ParentPath(PathOf(ts, id))).id

\* handleMoveTask(X, Y, null), X and Y distinct tasks, Y outside the subtree of X
MoveAway(X, Y) ==
    /\ hist.trip = none
    /\ X # Y
    /\ Y \notin SubtreeIds(tasks, X)
    /\ HandleMoveTaskH(X, Y, none,
           [hist EXCEPT !.trip = Some([from |-> tasks, id |-> X, to |-> Y,
                                       home |-> ParentIdOf(tasks, X),
                                       stage |-> "away"])])

\* the move back: to the canvas if the task was a root, to its parent otherwise
MoveBack ==
    /\ hist.trip # none
    /\ hist.trip[1].stage = "away"
    /\ LET t == hist.trip[1]
           h == [hist EXCEPT !.trip = Some([t EXCEPT !.stage = "back"])]
       IN IF t.home = null
          THEN HandleMoveTaskH(t.id, null, DropPos, h)
          ELSE HandleMoveTaskH(t.id, t.home, none, h)

NextRound ==
    \/ \E title \in Titles, color \in Colors :
          /\ hist.trip = none
          /\ CountTasks(tasks) < MaxCardTasks
          /\ HandleCreateTask(FreshId(tasks), title, color)
    \/ \E parentId \in AllIds(tasks), title \in Titles, color \in Colors :
          /\ hist.trip = none
          /\ CountTasks(tasks) < MaxCardTasks
          /\ HandleAddSubtask(parentId, FreshId(tasks), title, color)
    \/ \E X \in AllIds(tasks), Y \in AllIds(tasks) : MoveAway(X, Y)
    \/ MoveBack

SpecRound == InitLoaded /\ [][NextRound]_vars

\* same ids, same fields apart from the position, same parent, same subtasks
\* (as sets) for every task
Isomorphic(f, g) ==
    /\ UniqueIds(f)
    /\ UniqueIds(g)
    /\ AllIds(f) = AllIds(g)
    /\ \A id \in AllIds(f) :
          LET a == TaskAt(f, PathOf(f, id))
              b == TaskAt(g, PathOf(g, id))
          IN /\ [Fields(a) EXCEPT !.x = 0, !.y = 0] = [Fields(b) EXCEPT !.x = 0, !.y = 0]
             /\ ParentIdOf(f, id) = ParentIdOf(g, id)
             /\ AllIds(a.subtasks) = AllIds(b.subtasks)

\* C13: in a forest with unique ids, moving X under Y (Y not X, Y outside the
\* subtree of X) and moving X back to where it was gives a forest with the same
\* ids, titles, parent relation and subtrees as the forest before the two moves
C13_MoveRoundTrip ==
    (hist.trip # none /\ hist.trip[1].stage = "back") =>
        Isomorphic(tasks, hist.trip[1].from)

\* a subtask with a subtask of its own went under another root and came back
C13_Witness ==
    /\ hist.trip # none
    /\ hist.trip[1].stage = "back"
    /\ op.name = "moveTask"
    /\ hist.trip[1].home # null
    /\ hist.trip[1].to # hist.trip[1].home
    /\ Len(TaskAt(tasks, PathOf(tasks, hist.trip[1].id)).subtasks) = 1
    /\ tasks # hist.trip[1].from


(***************************************************************************)
(* The claims about the result of a move.                                  *)
(***************************************************************************)
\* the ids of the subtasks of the task with this id, in order
SubtaskIdsOf(ts, id) == IdsOf(TaskAt(ts, PathOf(ts, id)).subtasks)

\* every task but the moved one keeps its fields and its subtasks, the moved
\* one left out
OthersKept(before, after, moved) ==
    \A y \in AllIds(before) \ {moved} :
        /\ Fields(TaskAt(after, PathOf(after, y))) = Fields(TaskAt(before, PathOf(before, y)))
        /\ Without(SubtaskIdsOf(after, y), {moved}) = Without(SubtaskIdsOf(before, y), {moved})

\* C14: in a forest with unique ids, moveTask(A, reparent to B) with A and B
\* distinct existing tasks and B outside the subtree of A makes A the last subtask
\* of B with parentId B and position (0, 0), keeps the subtasks of A, and removes
\* A from its former place
C14_ReparentResult ==
    (/\ op.name = "moveTask"
     /\ Truthy(op.to)
     /\ UniqueIds(op.prev)
     /\ op.id \in AllIds(op.prev)
     /\ op.to \in AllIds(op.prev)
     /\ op.id # op.to
     /\ op.to \notin SubtreeIds(op.prev, op.id)) =>
        /\ UniqueIds(tasks)
        /\ AllIds(tasks) = AllIds(op.prev)
        /\ LET A0 == TaskAt(op.prev, PathOf(op.prev, op.id))
               B  == TaskAt(tasks, PathOf(tasks, op.to))
               A  == B.subtasks[Len(B.subtasks)]
           IN /\ Len(B.subtasks) > 0
              /\ A = [A0 EXCEPT !.parentId = op.to, !.x = 0, !.y = 0]
              /\ IdsOf(B.subtasks) =
                     Append(Without(SubtaskIdsOf(op.prev, op.to), {op.id}), op.id)
        /\ IdsOf(tasks) = Without(IdsOf(op.prev), {op.id})
        /\ OthersKept(op.prev, tasks, op.id)

\* a root with a subtask has been moved under the other root: [A, B] gives [B]
C14_Witness ==
    /\ op.name = "moveTask"
    /\ Truthy(op.to)
    /\ UniqueIds(op.prev)
    /\ Len(op.prev) = 2
    /\ op.id = op.prev[1].id
    /\ op.to = op.prev[2].id
    /\ Len(op.prev[1].subtasks) = 1
    /\ Len(tasks) = 1
    /\ IdsOf(tasks[1].subtasks) = <<op.id>>

\* C15: in a forest with unique ids, moveTask(B, reposition to (x, y)) of an
\* existing task B makes B the last root with no parentId and position (x, y),
\* keeps the subtasks of B, and removes B from the subtasks of its former parent
C15_RepositionResult ==
    (/\ op.name = "moveTask"
     /\ ~Truthy(op.to)
     /\ op.pos # none
     /\ UniqueIds(op.prev)
     /\ op.id \in AllIds(op.prev)) =>
        /\ UniqueIds(tasks)
        /\ AllIds(tasks) = AllIds(op.prev)
        /\ Len(tasks) > 0
        /\ tasks[Len(tasks)] =
               [TaskAt(op.prev, PathOf(op.prev, op.id))
                   EXCEPT !.parentId = undefined, !.x = op.pos[1].x, !.y = op.pos[1].y]
        /\ IdsOf(tasks) = Append(Without(IdsOf(op.prev), {op.id}), op.id)
        /\ OthersKept(op.prev, tasks, op.id)

\* the single subtask of a root has been moved to the canvas: [A] gives [A, B]
C15_Witness ==
    /\ op.name = "moveTask"
    /\ ~Truthy(op.to)
    /\ op.pos = DropPos
    /\ Len(op.prev) = 1
    /\ IdsOf(op.prev[1].subtasks) = <<op.id>>
    /\ op.id # op.prev[1].id
    /\ Len(tasks) = 2
    /\ tasks[1].subtasks = <<>>
    /\ tasks[2].id = op.id
    /\ tasks[2].parentId = undefined
    /\ tasks[2].x = 50
    /\ tasks[2].y = 60


(***************************************************************************)
(* Search.                                                                 *)
(***************************************************************************)
\* the score of searchTask times the number of query words: 100, 80 and 60 times
\* that number, else 40 times the number of words the title includes (the
\* scores of one search are only compared with each other and with 0)
score(title, lowerQuery) ==
    LET queryWords   == split(lowerQuery)
        matchedWords == Cardinality({i \in 1..Len(queryWords) : includes(title, queryWords[i])})
    IN IF title = lowerQuery THEN 100 * Len(queryWords)
       ELSE IF startsWith(title, lowerQuery) THEN 80 * Len(queryWords)
       ELSE IF includes(title, lowerQuery) THEN 60 * Len(queryWords)
       ELSE 40 * matchedWords

\* a search in which a later task of equal score replaces the best match
RECURSIVE searchTask_LaterEqualWins(_, _, _)
searchTask_LaterEqualWins(ts, lowerQuery, bestMatch) ==
    IF ts = <<>> THEN bestMatch
    ELSE LET task == Head(ts)
             sc   == score(toLowerCase(task.title), lowerQuery)
             b1   == IF sc > 0 /\ (bestMatch = none \/ sc >= bestMatch[1].score)
                     THEN Some([id |-> task.id, score |-> sc])
                     ELSE bestMatch
         IN searchTask_LaterEqualWins(Tail(ts), lowerQuery,
                searchTask_LaterEqualWins(task.subtasks, lowerQuery, b1))

\* tasks.forEach(searchTask) from the best match so far: each task, then its
\* subtasks, then the next task
RECURSIVE searchTask(_, _, _)
searchTask(ts, lowerQuery, bestMatch) ==
    IF ts = <<>> THEN bestMatch
    ELSE LET task == Head(ts)
             sc   == score(toLowerCase(task.title), lowerQuery)
             b1   == IF sc > 0 /\ (bestMatch = none \/ sc > bestMatch[1].score)
                     THEN Some([id |-> task.id, score |-> sc])
                     ELSE bestMatch
         IN searchTask(Tail(ts), lowerQuery, searchTask(task.subtasks, lowerQuery, b1))

\* bestMatch?.id || null
findBestMatch(ts, query) ==
    LET bestMatch == searchTask(ts, toLowerCase(query), none)
    IN IF bestMatch # none /\ Truthy(bestMatch[1].id) THEN bestMatch[1].id ELSE null

\* handleSearch: the canvas is centered on the task found, the search input closes;
\* op.id is what findBestMatch returned, op.to the task centerOnTask was called with
HandleSearch(query) ==
    /\ Ready
    /\ \E taskId \in {findBestMatch(tasks, query)} :
          op' = [name |-> "search", id |-> taskId,
                 to |-> IF Truthy(taskId) THEN taskId ELSE null,
                 pos |-> none, prev |-> tasks, steps |-> <<>>, query |-> query]
    /\ isSearching' = FALSE
    /\ UNCHANGED <<tasks, appVars, netVars, isAdding, saveTimeoutRef, timers, hist>>

(***************************************************************************)
(* The header: the two toggles and the two forms.                          *)
(***************************************************************************)
HandleToggleSearch ==
    /\ Ready
    /\ isSearching' = ~isSearching
    /\ isAdding' = (IF isAdding THEN FALSE ELSE isAdding)
    /\ op' = Op("toggleSearch", null, null, none)
    /\ UNCHANGED <<tasks, appVars, netVars, saveTimeoutRef, timers, hist>>

\* a toggle of the add-task input that leaves the search input as it is
HandleToggleAdd_KeepsSearch ==
    /\ Ready
    /\ isAdding' = ~isAdding
    /\ isSearching' = isSearching
    /\ op' = Op("toggleAdd", null, null, none)
    /\ UNCHANGED <<tasks, appVars, netVars, saveTimeoutRef, timers, hist>>

HandleToggleAdd ==
    /\ Ready
    /\ isAdding' = ~isAdding
    /\ isSearching' = (IF isSearching THEN FALSE ELSE isSearching)
    /\ op' = Op("toggleAdd", null, null, none)
    /\ UNCHANGED <<tasks, appVars, netVars, saveTimeoutRef, timers, hist>>

\* the add-task form, rendered while isAdding
HeaderSubmit(taskTitle, selectedColor, newId) ==
    /\ isAdding
    /\ IF trim(taskTitle) # <<>>
       THEN HandleCreateTask(newId, taskTitle, selectedColor)
       ELSE FormRejected("createTask", taskTitle)

\* the search form, rendered while isSearching and not isAdding
HeaderSearch(searchQuery) ==
    /\ ~isAdding
    /\ isSearching
    /\ IF trim(searchQuery) # <<>>
       THEN HandleSearch(searchQuery)
       ELSE FormRejected("search", searchQuery)

\* the edit form of the card at p (submit, or blur with a non-empty title)
CardEdit(p, editTitle) ==
    /\ p \in RenderedPaths(tasks)
    /\ IF trim(editTitle) # <<>>
       THEN HandleEditTask(TaskAt(tasks, p).id, trim(editTitle))
       ELSE FormRejected("editTask", editTitle)

(***************************************************************************)
(* Forms specification: the forest is built and renamed through the forms  *)
(* of the header and of the cards, and searched through the header.        *)
(***************************************************************************)
\* what the user types as a title
TitleInputs == {<<>>, <<" ">>, <<"a">>, <<"b">>, <<"A", " ", "b">>, <<"b", " ", "a">>}

NextForms ==
    \/ HandleToggleAdd
    \/ HandleToggleSearch
    \/ \E taskTitle \in TitleInputs, color \in Colors :
          /\ CountTasks(tasks) < MaxFormTasks
          /\ HeaderSubmit(taskTitle, color, FreshId(tasks))
    \/ \E p \in RenderedPaths(tasks), title \in TitleInputs :
          /\ CountTasks(tasks) < MaxFormTasks
          /\ CardAddSubtask(p, FreshId(tasks), title)
    \/ \E p \in RenderedPaths(tasks), editTitle \in TitleInputs : CardEdit(p, editTitle)
    \/ \E searchQuery \in Str(MaxQueryLen) : HeaderSearch(searchQuery)

SpecForms == InitLoaded /\ [][NextForms]_vars


(***************************************************************************)
(* The claims about the search and the titles.                             *)
(***************************************************************************)
\* the score of the claim, times the number of space-separated words of the query
RankScore(title, query) ==
    LET t     == toLowerCase(title)
        q     == toLowerCase(query)
        words == split(q)
    IN CASE t = q -> 100 * Len(words)
         [] t # q /\ startsWith(t, q) -> 80 * Len(words)
         [] ~startsWith(t, q) /\ includes(t, q) -> 60 * Len(words)
         [] OTHER -> 40 * Cardinality({i \in 1..Len(words) : includes(t, words[i])})

\* the first task in depth-first pre-order whose score is maximal, null when
\* every score is 0
RankedFirst(ts, query) ==
    LET F    == Flatten(ts)
        best == {i \in 1..Len(F) :
                    /\ RankScore(F[i].title, query) > 0
                    /\ \A j \in 1..Len(F) :
                          RankScore(F[j].title, query) <= RankScore(F[i].title, query)}
    IN IF best = {} THEN null
       ELSE F[CHOOSE i \in best : \A j \in best : i <= j].id

\* C16: findBestMatch returns the first task in depth-first pre-order among the
\* tasks of maximal score (100 equal, 80 prefix, 60 substring, else 40 times the
\* fraction of query words in the title), at all depths
C16_RankedSearch ==
    op.name = "search" => op.id = RankedFirst(op.prev, op.query)

\* a subtask of the first root and the second root tie for the best score, the
\* first root scores less: the subtask is returned
C16_Witness ==
    /\ op.name = "search"
    /\ Len(op.prev) = 2
    /\ Len(op.prev[1].subtasks) = 1
    /\ op.id = op.prev[1].subtasks[1].id
    /\ RankScore(op.prev[1].subtasks[1].title, op.query)
          = RankScore(op.prev[2].title, op.query)
    /\ RankScore(op.prev[1].title, op.query) > 0
    /\ RankScore(op.prev[1].title, op.query) < RankScore(op.prev[2].title, op.query)

\* the words of a query: the non-empty pieces between its spaces, lower-cased
WordsOf(query) ==
    {split(toLowerCase(query))[i] : i \in 1..Len(split(toLowerCase(query)))} \ {<<>>}

\* C17: a submitted query none of whose words occurs in any title (case ignored)
\* finds no task and does not move the canvas
C17_NoMatchNoResult ==
    (/\ op.name = "search"
     /\ \A w \in WordsOf(op.query) :
           \A i \in 1..Len(Flatten(op.prev)) :
               ~includes(toLowerCase(Flatten(op.prev)[i].title), w))
        => (op.id = null /\ op.to = null)

\* a title that is empty after trimming
IsBlank(str) == \A i \in 1..Len(str) : str[i] = " "

\* C18: a create-task, add-subtask or rename submitted with a title that is
\* empty after trimming changes nothing, and no title in the forest is empty
\* after trimming
C18_TitleValidation ==
    /\ \A i \in 1..Len(Flatten(tasks)) : ~IsBlank(Flatten(tasks)[i].title)
    /\ op.name = "rejected" => tasks = op.prev

\* a rename to a blank title has been refused on a forest with a task
C18_Witness ==
    /\ op.name = "rejected"
    /\ op.form = "editTask"
    /\ op.text = <<" ">>
    /\ tasks # <<>>
    /\ tasks = op.prev


(***************************************************************************)
(* The claims about the drops on the canvas and on the cards.              *)
(***************************************************************************)
\* C19: a subtask or sub-subtask dropped on empty canvas becomes the last root,
\* at the drop position and without parentId, and leaves the subtasks of its
\* former parent
C19_PromoteByCanvasDrop ==
    (/\ op.name = "dropOnCanvas"
     /\ Depth(PathOf(op.prev, op.id)) > 0) =>
        /\ Len(tasks) > 0
        /\ tasks[Len(tasks)].id = op.id
        /\ tasks[Len(tasks)].parentId = undefined
        /\ tasks[Len(tasks)].x = DropPos[1].x
        /\ tasks[Len(tasks)].y = DropPos[1].y
        /\ op.id \notin {SubtaskIdsOf(tasks, ParentIdOf(op.prev, op.id))[i] :
                            i \in 1..Len(SubtaskIdsOf(tasks, ParentIdOf(op.prev, op.id)))}

\* C20: a top-level task X dropped on the card of another task T below the
\* maximum level (T not in the subtree of X) is, after all the drop handlers of
\* the gesture have run, the last subtask of T and no longer a root
C20_NestByCardDrop ==
    (/\ op.name = "dropOnCard"
     /\ Depth(PathOf(op.prev, op.id)) = 0
     /\ op.to # op.id
     /\ ~IsProperAncestor(op.prev, op.id, op.to)
     /\ canAddSubtask(Depth(PathOf(op.prev, op.to)))) =>
        /\ op.to \in AllIds(tasks)
        /\ Len(SubtaskIdsOf(tasks, op.to)) > 0
        /\ SubtaskIdsOf(tasks, op.to)[Len(SubtaskIdsOf(tasks, op.to))] = op.id
        /\ \A i \in 1..Len(tasks) : tasks[i].id # op.id

(***************************************************************************)
(* The server routes on their own: any Authorization header, any body.     *)
(***************************************************************************)
\* an Authorization header is null or a string, held as its pieces between
\* spaces: "Bearer u1" is <<"Bearer", "u1">>
AuthHeaders ==
    {none} \cup {Some(<<scheme, token>>) :
                    scheme \in {"Bearer", "Basic"}, token \in Users \cup {"expired"}}

\* the key a user's forest is stored under; with every user under one key
tasksKey_Shared(uid) == "u1"

\* `user_${userId}_tasks`: one key per user id
tasksKey(uid) == uid

\* verifyUser(authHeader): the user id of a verified bearer token
verifyUser(authHeader) ==
    IF authHeader = none \/ Len(authHeader[1]) < 2 \/ authHeader[1][1] # "Bearer"
    THEN [error |-> "Missing or invalid authorization header", userId |-> null]
    ELSE IF ~Truthy(UserOfToken(authHeader[1][2]))
         THEN [error |-> "Unauthorized", userId |-> null]
         ELSE [error |-> null, userId |-> UserOfToken(authHeader[1][2])]

\* app.get(".../tasks"): the response and the key that was read, if any;
\* kvThrows is kv.get throwing
getTasksRoute(st, authHeader, kvThrows) ==
    LET v == verifyUser(authHeader)
    IN IF Truthy(v.error) \/ ~Truthy(v.userId)
       THEN [status |-> 401, tasks |-> none, read |-> {}, store |-> st]
       ELSE IF kvThrows
            THEN [status |-> 500, tasks |-> none, read |-> {}, store |-> st]
            ELSE [status |-> 200,
                  tasks |-> IF st[tasksKey(v.userId)] = none
                            THEN Some(<<>>) ELSE st[tasksKey(v.userId)],
                  read |-> {tasksKey(v.userId)},
                  store |-> st]

\* app.post(".../tasks"): the response and the store after it; body.isArray is
\* Array.isArray(tasks) of the parsed body, kvThrows is kv.set throwing
postTasksRoute(st, authHeader, body, kvThrows) ==
    LET v == verifyUser(authHeader)
    IN IF Truthy(v.error) \/ ~Truthy(v.userId)
       THEN [status |-> 401, tasks |-> none, read |-> {}, store |-> st]
       ELSE IF ~body.isArray
            THEN [status |-> 400, tasks |-> none, read |-> {}, store |-> st]
            ELSE IF kvThrows
                 THEN [status |-> 500, tasks |-> none, read |-> {}, store |-> st]
                 ELSE [status |-> 200, tasks |-> none, read |-> {},
                       store |-> [st EXCEPT ![tasksKey(v.userId)] = Some(body.tasks)]]

ServerOp(name, authHeader, resp) ==
    [name |-> name, authHeader |-> authHeader, status |-> resp.status,
     tasks |-> resp.tasks, read |-> resp.read, prev |-> store]

\* one GET request handled by the server
GetTasksRoute(authHeader, kvThrows) ==
    LET resp == getTasksRoute(store, authHeader, kvThrows)
    IN /\ store' = resp.store
       /\ op' = ServerOp("GET", authHeader, resp)
       /\ UNCHANGED <<tasks, appVars, headerVars, saveTimeoutRef, timers,
                      getReqs, getResps, postReqs, hist>>

\* one POST request handled by the server
PostTasksRoute(authHeader, body, kvThrows) ==
    LET resp == postTasksRoute(store, authHeader, body, kvThrows)
    IN /\ store' = resp.store
       /\ op' = ServerOp("POST", authHeader, resp)
       /\ UNCHANGED <<tasks, appVars, headerVars, saveTimeoutRef, timers,
                      getReqs, getResps, postReqs, hist>>

\* the forests a request body carries
BodyForests ==
    {<<>>, StoredForest, <<Task("b", <<"t">>, "blue", CreateX, 50, undefined)>>}

Bodies ==
    {[isArray |-> TRUE, tasks |-> f] : f \in BodyForests}
        \cup {[isArray |-> FALSE, tasks |-> <<>>]}

\* nobody is logged in on the browser; the first user has a forest in the store
InitServer ==
    /\ tasks = <<>>
    /\ isAuthenticated = FALSE
    /\ accessToken = ""
    /\ userId = ""
    /\ isLoading = FALSE
    /\ isAdding = FALSE
    /\ isSearching = FALSE
    /\ localStorage = null
    /\ saveTimeoutRef = none
    /\ timers = {}
    /\ getReqs = {}
    /\ getResps = {}
    /\ postReqs = {}
    /\ store = [u \in Users |-> IF u = "u1" THEN Some(StoredForest) ELSE none]
    /\ op = [name |-> "init", authHeader |-> none, status |-> 0, tasks |-> none,
             read |-> {}, prev |-> [u \in Users |-> none]]
    /\ hist = NoHist

NextServer ==
    \/ \E authHeader \in AuthHeaders, kvThrows \in BOOLEAN :
          GetTasksRoute(authHeader, kvThrows)
    \/ \E authHeader \in AuthHeaders, body \in Bodies, kvThrows \in BOOLEAN :
          PostTasksRoute(authHeader, body, kvThrows)

SpecServer == InitServer /\ [][NextServer]_vars

\* a request is verified when it has a bearer token of a user
Verified(authHeader) ==
    /\ authHeader # none
    /\ authHeader[1][1] = "Bearer"
    /\ authHeader[1][2] \in Users

\* what GET /tasks answers to user u on store st
Answer(st, u) == IF st[u] = none THEN <<>> ELSE st[u][1]

\* C21: an accepted POST of user A leaves the answer of GET /tasks for every
\* other user as it was; a request that fails verification gets status 401,
\* reads no key and leaves the store as it was
C21_ServerIsolation ==
    /\ (op.name = "POST" /\ op.status = 200) =>
          \A u \in Users \ {op.authHeader[1][2]} : Answer(store, u) = Answer(op.prev, u)
    /\ (op.name \in {"GET", "POST"} /\ ~Verified(op.authHeader)) =>
          /\ op.status = 401
          /\ op.read = {}
          /\ op.tasks = none
          /\ store = op.prev
    /\ (op.name = "GET" /\ op.status = 200) =>
          /\ op.read = {op.authHeader[1][2]}
          /\ op.tasks = Some(Answer(op.prev, op.authHeader[1][2]))
          /\ store = op.prev

\* the second user has saved a forest while the first user's forest is stored
C21_Witness ==
    /\ op.name = "POST"
    /\ op.status = 200
    /\ op.authHeader = Some(<<"Bearer", "u2">>)
    /\ op.prev["u1"] = Some(StoredForest)
    /\ store["u2"] # op.prev["u2"]

(***************************************************************************)
(* Two users on one browser, one after the other.                          *)
(***************************************************************************)
\* the title each user types, so that a task shows whose edit it came from
TitleOf(u) == IF u = "u1" THEN <<"t">> ELSE <<"b">>

NextUsers ==
    \/ \E u \in Users : HandleLogin(u)
    \/ HandleLogout
    \/ \E token \in getReqs : ServerGetTasks(token)
    \/ \E r \in getResps : LoadTasksResumes(r)
    \/ \E t \in timers : TimerFires(t)
    \/ \E r \in postReqs : ServerSaveTasks(r)
    \/ \E color \in Colors :
          /\ CountTasks(tasks) < MaxUserTasks
          /\ HandleCreateTask(FreshId(tasks), TitleOf(userId), color)

SpecUsers == InitMounted /\ [][NextUsers]_vars

\* every task of the forest was typed by user u
OwnedBy(ts, u) == \A p \in Paths(ts) : TaskAt(ts, p).title = TitleOf(u)

\* C22: while user B is authenticated the forest in memory holds only B's tasks
\* and every load in flight was requested with B's token; every save scheduled,
\* sent or stored under B's token holds only B's tasks
C22_ClientIsolation ==
    /\ isAuthenticated =>
          /\ OwnedBy(tasks, userId)
          /\ \A token \in getReqs : token = accessToken
          /\ \A r \in getResps : r.token = accessToken
    /\ \A t \in timers \cup postReqs : OwnedBy(t.tasks, UserOfToken(t.token))
    /\ \A u \in Users : store[u] # none => OwnedBy(store[u][1], u)

\* the second user works on a forest of their own after the first user, whose
\* forest is in the store, has used the browser
C22_Witness ==
    /\ isAuthenticated
    /\ userId = "u2"
    /\ hist.loggedOut
    /\ tasks # <<>>
    /\ store["u1"] = Some(StoredForest)
    /\ store["u2"] \notin {none, Some(<<>>)}

(***************************************************************************)
(* Update specification: forests built with ids that are not in use, and   *)
(* the handlers that go through findAndUpdateTask called with any id.      *)
(***************************************************************************)
\* the title a rename types
EditTitles == {<<"e">>}

NextUpdate ==
    \/ \E title \in Titles, color \in Colors :
          /\ CountTasks(tasks) < MaxUpdateTasks
          /\ HandleCreateTask(FreshId(tasks), title, color)
    \/ \E parentId \in IdPool, title \in Titles, color \in Colors :
          /\ CountTasks(tasks) < MaxUpdateTasks
          /\ HandleAddSubtask(parentId, FreshId(tasks), title, color)
    \/ \E id \in IdPool : HandleToggleComplete(id)
    \/ \E id \in IdPool : HandleToggleCollapse(id)
    \/ \E id \in IdPool, newTitle \in EditTitles : HandleEditTask(id, newTitle)

SpecUpdate == InitLoaded /\ [][NextUpdate]_vars

\* the completed and the collapsed flag of the task with an id
Flags(ts, id) ==
    [completed |-> TaskAt(ts, PathOf(ts, id)).completed,
     collapsed |-> TaskAt(ts, PathOf(ts, id)).collapsed]

\* a task without its flags and its subtasks
Unflagged(t) == [t EXCEPT !.completed = FALSE, !.collapsed = FALSE, !.subtasks = <<>>]

\* the last toggle, as the updateFn it passed
ToggleOf(name) == IF name = "toggleComplete" THEN ToggleCompleteFn ELSE ToggleCollapseFn

\* C23: a toggle on task t of a forest with unique ids flips the one flag of t,
\* leaves the other flag of t and both flags of every other task as they were,
\* changes nothing else, and the same toggle applied again gives the forest
\* before the first
C23_NoCascade ==
    (/\ op.name \in {"toggleComplete", "toggleCollapse"}
     /\ UniqueIds(op.prev)
     /\ op.id \in AllIds(op.prev)) =>
        /\ Paths(tasks) = Paths(op.prev)
        /\ \A p \in Paths(tasks) : Unflagged(TaskAt(tasks, p)) = Unflagged(TaskAt(op.prev, p))
        /\ \A y \in AllIds(op.prev) \ {op.id} : Flags(tasks, y) = Flags(op.prev, y)
        /\ Flags(tasks, op.id) =
              IF op.name = "toggleComplete"
              THEN [Flags(op.prev, op.id) EXCEPT !.completed = ~@]
              ELSE [Flags(op.prev, op.id) EXCEPT !.collapsed = ~@]
        /\ findAndUpdateTask(tasks, op.id, ToggleOf(op.name)) = op.prev

\* a task between its parent and its own subtask has been completed while
\* neither the parent nor the subtask is
C23_Witness ==
    /\ op.name = "toggleComplete"
    /\ UniqueIds(op.prev)
    /\ op.id \in AllIds(op.prev)
    /\ Depth(PathOf(op.prev, op.id)) = 1
    /\ Len(TaskAt(tasks, PathOf(tasks, op.id)).subtasks) = 1
    /\ TaskAt(tasks, PathOf(tasks, op.id)).completed
    /\ ~TaskAt(tasks, ParentPath(PathOf(tasks, op.id))).completed
    /\ ~TaskAt(tasks, PathOf(tasks, op.id)).subtasks[1].completed

\* the handlers that are one call of findAndUpdateTask
UpdateOps == {"toggleComplete", "toggleCollapse", "editTask", "addSubtask"}

\* the id the last handler passed to findAndUpdateTask
UpdatedId == IF op.name = "addSubtask" THEN op.to ELSE op.id

\* the updateFn closures the last handler may have passed
UpdateFns ==
    CASE op.name = "toggleComplete" -> {ToggleCompleteFn}
      [] op.name = "toggleCollapse" -> {ToggleCollapseFn}
      [] op.name = "editTask"       -> {EditTitleFn(newTitle) : newTitle \in EditTitles}
      [] op.name = "addSubtask"     ->
            {AppendSubtaskFn(Task(op.id, title, color, 0, 0, op.to)) :
                title \in Titles, color \in Colors}
      [] OTHER -> {}

\* path p is path q or below it
AtOrBelow(p, q) == Len(p) >= Len(q) /\ SubSeq(p, 1, Len(q)) = q

\* C24: findAndUpdateTask(forest, id, f) on a forest with unique ids puts f(task)
\* where the task with the id was, keeps the subtasks of that task unless f
\* changes them, and leaves every other task with its fields at its place
C24_UpdateFrame ==
    (/\ op.name \in UpdateOps
     /\ UniqueIds(op.prev)
     /\ UpdatedId \in AllIds(op.prev)) =>
        LET q == PathOf(op.prev, UpdatedId)
        IN /\ \E fn \in UpdateFns : TaskAt(tasks, q) = ApplyUpdate(fn, TaskAt(op.prev, q))
           /\ op.name # "addSubtask" =>
                 TaskAt(tasks, q).subtasks = TaskAt(op.prev, q).subtasks
           /\ op.name = "addSubtask" =>
                 SubSeq(TaskAt(tasks, q).subtasks, 1, Len(TaskAt(op.prev, q).subtasks))
                     = TaskAt(op.prev, q).subtasks
           /\ Len(tasks) = Len(op.prev)
           /\ {p \in Paths(tasks) : ~AtOrBelow(p, q)} = {p \in Paths(op.prev) : ~AtOrBelow(p, q)}
           /\ \A p \in Paths(op.prev) :
                 ~AtOrBelow(p, q) =>
                    /\ Fields(TaskAt(tasks, p)) = Fields(TaskAt(op.prev, p))
                    /\ Len(TaskAt(tasks, p).subtasks) = Len(TaskAt(op.prev, p).subtasks)

\* a task with a parent and a subtask of its own has been renamed
C24_Witness ==
    /\ op.name = "editTask"
    /\ UniqueIds(op.prev)
    /\ op.id \in AllIds(op.prev)
    /\ Depth(PathOf(op.prev, op.id)) = 1
    /\ Len(TaskAt(op.prev, PathOf(op.prev, op.id)).subtasks) = 1
    /\ TaskAt(tasks, PathOf(tasks, op.id)).title # TaskAt(op.prev, PathOf(op.prev, op.id)).title

(***************************************************************************)
(* All the handlers that take a task id, called with any id.               *)
(***************************************************************************)
NextAny ==
    \/ \E title \in Titles, color \in Colors :
          /\ CountTasks(tasks) < MaxAnyTasks
          /\ HandleCreateTask(FreshId(tasks), title, color)
    \/ \E parentId \in IdPool, title \in Titles, color \in Colors :
          /\ CountTasks(tasks) < MaxAnyTasks
          /\ HandleAddSubtask(parentId, FreshId(tasks), title, color)
    \/ \E id \in IdPool : HandleToggleComplete(id)
    \/ \E id \in IdPool : HandleToggleCollapse(id)
    \/ \E id \in IdPool, newTitle \in EditTitles : HandleEditTask(id, newTitle)
    \/ \E taskId \in IdPool, newParentId \in IdPool : HandleMoveTask(taskId, newParentId, none)
    \/ \E taskId \in IdPool : HandleMoveTask(taskId, null, DropPos)
    \/ \E taskId \in IdPool : HandleDeleteTask(taskId)

SpecAny == InitLoaded /\ [][NextAny]_vars

\* the handlers that look a task up by id
LookupOps ==
    {"toggleComplete", "toggleCollapse", "editTask", "addSubtask", "moveTask", "deleteTask"}

\* the id the last handler looked up: the parent id for add-subtask, the task id
\* for the others
LookedUpId == IF op.name = "addSubtask" THEN op.to ELSE op.id

\* C25: a toggle, rename, add-subtask, move or delete whose id is nowhere in the
\* forest leaves the forest as it was
C25_NotFoundNoOp ==
    (op.name \in LookupOps /\ LookedUpId \notin AllIds(op.prev)) => tasks = op.prev

\* add-subtask has been called on a forest with a task, with a parent id that
\* is not in it
C25_Witness ==
    /\ op.name = "addSubtask"
    /\ op.prev # <<>>
    /\ op.to \notin AllIds(op.prev)

\* forest ts without the task at path q and its subtree
RECURSIVE CutOut(_, _)
CutOut(ts, q) ==
    IF Len(q) = 1
    THEN SubSeq(ts, 1, q[1] - 1) \o SubSeq(ts, q[1] + 1, Len(ts))
    ELSE [ts EXCEPT ![q[1]].subtasks = CutOut(@, Tail(q))]

\* the tasks of a forest, each without its subtasks
FieldsIn(ts) == {Fields(TaskAt(ts, p)) : p \in Paths(ts)}

\* C26: removeTaskFromTree on a forest with unique ids that holds taskId returns
\* as removed the task with that id with its subtree as it was, and as tasks the
\* forest with that subtree cut out of the sequence it was in, the rest in
\* order; the tasks of both together are the tasks of the forest
C26_RemoveDetachesIntact ==
    (/\ op.name \in {"deleteTask", "moveTask"}
     /\ UniqueIds(op.prev)
     /\ op.id \in AllIds(op.prev)) =>
        LET q == PathOf(op.prev, op.id)
            r == removeTaskFromTree(op.prev, op.id)
        IN /\ r.removed = Some(TaskAt(op.prev, q))
           /\ r.tasks = CutOut(op.prev, q)
           /\ op.name = "deleteTask" => tasks = r.tasks
           /\ r.removed # none =>
                 /\ FieldsIn(r.tasks) \cup FieldsIn(r.removed) = FieldsIn(op.prev)
                 /\ AllIds(r.tasks) \cap AllIds(r.removed) = {}
                 /\ CountTasks(r.tasks) + CountTasks(r.removed) = CountTasks(op.prev)

\* a task with a parent and a subtask of its own has been detached by a delete
C26_Witness ==
    /\ op.name = "deleteTask"
    /\ UniqueIds(op.prev)
    /\ op.id \in AllIds(op.prev)
    /\ Depth(PathOf(op.prev, op.id)) = 1
    /\ Len(TaskAt(op.prev, PathOf(op.prev, op.id)).subtasks) = 1
    /\ CountTasks(tasks) = 1

(***************************************************************************)
(* Root tasks of two colors made with the header form, subtasks added      *)
(* with the form of a card.                                                *)
(***************************************************************************)
\* the colors picked in the palette of the header
PaletteColors == {"blue", "red", "green"}

NextColors ==
    \/ HandleToggleAdd
    \/ \E taskTitle \in Titles, selectedColor \in PaletteColors :
          /\ CountTasks(tasks) < MaxColorTasks
          /\ HeaderSubmit(taskTitle, selectedColor, FreshId(tasks))
    \/ \E p \in RenderedPaths(tasks), title \in Titles :
          /\ CountTasks(tasks) < MaxColorTasks
          /\ CardAddSubtask(p, FreshId(tasks), title)

SpecColors == InitLoaded /\ [][NextColors]_vars

\* C27: add-subtask from the card of an existing task p puts one new task at the
\* end of p's subtasks, with parentId p.id, the title typed, the color of p,
\* position (0,0), not completed, not collapsed and without subtasks; without
\* the new task the forest is the forest before
C27_AddSubtaskEffect ==
    (/\ op.name = "addSubtask"
     /\ UniqueIds(op.prev)
     /\ op.to \in AllIds(op.prev)) =>
        LET q    == PathOf(op.prev, op.to)
            was  == TaskAt(op.prev, q)
            now  == TaskAt(tasks, q)
            last == Len(was.subtasks) + 1
        IN /\ Len(now.subtasks) = last
           /\ \E title \in Titles :
                 now.subtasks[last] =
                     [id |-> op.id, title |-> title, color |-> was.color, x |-> 0, y |-> 0,
                      completed |-> FALSE, collapsed |-> FALSE, subtasks |-> <<>>,
                      parentId |-> was.id]
           /\ SubSeq(now.subtasks, 1, last - 1) = was.subtasks
           /\ CutOut(tasks, q \o <<last>>) = op.prev
           /\ CountTasks(tasks) = CountTasks(op.prev) + 1

\* a second subtask has been added to a red task
C27_Witness ==
    /\ op.name = "addSubtask"
    /\ op.to \in AllIds(op.prev)
    /\ TaskAt(op.prev, PathOf(op.prev, op.to)).color = "red"
    /\ Len(TaskAt(tasks, PathOf(tasks, op.to)).subtasks) = 2
    /\ TaskAt(tasks, PathOf(tasks, op.to)).subtasks[2].id = op.id

(***************************************************************************)
(* The four handlers behind the header, called in any order.               *)
(***************************************************************************)
NextHeader ==
    \/ HandleToggleAdd
    \/ HandleToggleSearch
    \/ \E title \in TitleInputs, color \in Colors :
          /\ CountTasks(tasks) < MaxHeaderTasks
          /\ HandleCreateTask(FreshId(tasks), title, color)
    \/ \E query \in TitleInputs : HandleSearch(query)

SpecHeader == InitLoaded /\ [][NextHeader]_vars

\* C28: the add-task input and the search input are never both open
C28_ModalExclusivity == ~(isAdding /\ isSearching)

\* the add-task input has been opened by its toggle, with tasks on the canvas
C28_Witness ==
    /\ op.name = "toggleAdd"
    /\ isAdding
    /\ ~isSearching
    /\ tasks # <<>>

\* C29: a move of an existing task of a forest with unique ids, to any parent id
\* or any position, leaves the set of task ids and the number of tasks as they
\* were: no task is deleted, none is duplicated
C29_MoveConservesTasks ==
    (/\ op.name = "moveTask"
     /\ UniqueIds(op.prev)
     /\ op.id \in AllIds(op.prev)) =>
        /\ AllIds(tasks) = AllIds(op.prev)
        /\ CountTasks(tasks) = CountTasks(op.prev)

\* what a logout step does: the session is cleared in memory and in
\* localStorage, no save is scheduled or sent, and a save still pending holds
\* the token and the forest of before the logout
LogoutStep ==
    op'.name = "logout" =>
        /\ ~isAuthenticated'
        /\ accessToken' = ""
        /\ userId' = ""
        /\ tasks' = <<>>
        /\ localStorage' = null
        /\ timers' = timers
        /\ saveTimeoutRef' = saveTimeoutRef
        /\ postReqs' = postReqs
        /\ store' = store
        /\ \A t \in timers' : t.token = accessToken /\ t.tasks = tasks

\* what a firing timer sends: the token and the forest it was set with
TimerStep ==
    op'.name = "timerFires" =>
        \E t \in timers :
            /\ timers' = timers \ {t}
            /\ postReqs' = postReqs \cup {t}
            /\ op'.id = t.token
            /\ op'.prev = t.tasks
            /\ Truthy(t.token)

\* C30: handleLogout clears the session and the forest without scheduling a
\* save of the empty forest; a save timer pending across the logout keeps, and
\* sends when it fires, the forest and the token of before the logout
C30_LogoutWritesNothing == [][LogoutStep /\ TimerStep]_vars

\* a save of a forest with tasks is pending after the logout
C30_Witness ==
    /\ op.name = "logout"
    /\ ~isAuthenticated
    /\ \E t \in timers : t.tasks # <<>>

=============================================================================
